---- MODULE Spec2Model ----
(***************************************************************************)
(* Model of the gagara TypeScript client: GagaraClient (src/src/client.ts) *)
(* and Dataset (src/unnamed/part_000, imported as ./dataset.js), with the  *)
(* error classes of src/src/types.ts.                                     *)
(*                                                                         *)
(* Every async method is one call: it builds its request, arms its timeout *)
(* timer and hands the request to the transport (#request), and continues  *)
(* when the transport resolves or rejects.  The transport and the server   *)
(* behind it are the environment: the server keeps the catalog of          *)
(* datasets, answers each request from it, and may also fail.              *)
(***************************************************************************)
EXTENDS Integers, Sequences, FiniteSets, Bags, TLC

\* ------------------------------------------------------------------ bounds
MaxSent == 2       \* requests handed to the transport in one behaviour

\* calls the caller has in progress at once
Concurrent == {1, 2}

\* ------------------------------------------------------- program constants
DefaultTimeout == 30000

\* ------------------------------------------------------------ value spaces
Undefined == [undefined |-> TRUE]      \* JavaScript undefined (absent object)
NoJson    == [nojson |-> TRUE]         \* a body that is empty or not JSON
Streamed  == [streamed |-> TRUE]       \* a body whose content shows when read
Consumed  == [consumed |-> TRUE]       \* a request the server has taken

Tokens    == 1..(MaxSent + 1)          \* tokens: the server issues 1, 2, ...

Names     == {"a", "b"}                \* friendly names
Sqls      == {"SELECT", "SELEKT"}      \* a valid and an invalid statement
Datas     == {"id,name"}               \* uploaded bytes

\* options of new GagaraClient(options): with and without the optional fields
ClientOptionsSet ==
  { [baseUrl |-> <<"h", "/">>],
    [baseUrl |-> <<"h">>, fetch |-> "customFetch", timeout |-> 5] }

\* options of upload(): format given or not
UploadOptionsSet == { [none |-> TRUE], [format |-> "parquet"] }

\* bodies of error responses: with an error field, without one, unparsable
ErrorBodies == { [error |-> "boom"], [other |-> "x"], NoJson }

\* result sets of the query endpoint
QueryBodies ==
  { [columns |-> <<"id">>, rows |-> <<[id |-> 1], [id |-> 2]>>],
    [columns |-> <<"n", "id">>, rows |-> << >>] }

SchemaBody == [columns |-> <<[name |-> "id", data_type |-> "BIGINT", nullable |-> FALSE]>>]
MetaBody   == [row_count |-> 2, file_size_bytes |-> 9,
               columns |-> <<[name |-> "id", size_bytes |-> 9]>>]

\* statuses of a failing server: not-found, an internal error
FaultStatuses == {404, 500}

\* ---------------------------------------------------------------- types.ts
Msg(text) == [text |-> text]

GagaraError(message, status, body) ==
  [name |-> "GagaraError", message |-> message, status |-> status, body |-> body]

DatasetNotFoundError(token) ==
  [name |-> "DatasetNotFoundError",
   message |-> [text |-> "Dataset not found: ", token |-> token],
   status |-> 404, body |-> Undefined]

QueryError(message, body) ==
  [name |-> "QueryError", message |-> message, status |-> 400, body |-> body]

\* what the transport rejects with: fetch's TypeError, the abort's AbortError
NetworkFailure == [name |-> "TypeError"]
AbortFailure   == [name |-> "AbortError"]
\* what res.json() rejects with on an empty or malformed body
JsonFailure    == [name |-> "SyntaxError"]

\* -------------------------------------------------------- outcomes of calls
Return(v) == [kind |-> "return", value |-> v]
Throw(e)  == [kind |-> "throw", error |-> e]
Void      == [void |-> TRUE]
Bool(b)   == [bool |-> b]

\* Response.ok
Ok(res) == res.status >= 200 /\ res.status < 300

\* obj?.error ?? fallback, with obj a parsed body or undefined
ErrorOr(obj, fallback) ==
  IF "error" \in DOMAIN obj THEN Msg(obj.error) ELSE fallback

\* ------------------------------------------------------------- constructors
\* options.baseUrl.replace(/\/$/, '')
StripTrailingSlash(s) ==
  IF Len(s) > 0 /\ s[Len(s)] = "/" THEN SubSeq(s, 1, Len(s) - 1) ELSE s

GagaraClientCtor(options) ==
  [baseUrl |-> StripTrailingSlash(options.baseUrl),
   fetch   |-> IF "fetch" \in DOMAIN options THEN options.fetch ELSE "globalFetch",
   timeout |-> IF "timeout" \in DOMAIN options THEN options.timeout ELSE DefaultTimeout]

DatasetCtor(token, baseUrl, fetchFn, timeout) ==
  [token |-> token, baseUrl |-> baseUrl, fetch |-> fetchFn, timeout |-> timeout]

\* ----------------------------------------------------------------- requests
\* The (path, init) each method hands to #request.  A method that passes no
\* init leaves the method to the transport's default, GET.
UploadRequest(data, name, options) ==
  [path    |-> [route |-> "/catalog"],
   method  |-> "POST",
   headers |-> [ContentType |-> "application/octet-stream",
                XGagaraName |-> name,
                XGagaraFormat |-> IF "format" \in DOMAIN options
                                  THEN options.format ELSE "csv"],
   body    |-> [bytes |-> data]]

HealthRequest ==
  [path |-> [route |-> "/health"], method |-> "GET"]

QueryRequest(self, sql) ==
  [path    |-> [route |-> "/query"],
   method  |-> "POST",
   headers |-> [ContentType |-> "application/json",
                Authorization |-> [bearer |-> self.token]],
   body    |-> [sql |-> sql]]

QueryFullRequest(self, sql) ==
  [path    |-> [route |-> "/query"],
   method  |-> "POST",
   headers |-> [ContentType |-> "application/json",
                Authorization |-> [bearer |-> self.token]],
   body    |-> [sql |-> sql]]

SchemaRequest(self) ==
  [path |-> [route |-> "/catalog/{token}/schema", token |-> self.token],
   method |-> "GET"]

MetaRequest(self) ==
  [path |-> [route |-> "/catalog/{token}/meta", token |-> self.token],
   method |-> "GET"]

IsPresentRequest(self) ==
  [path |-> [route |-> "/catalog/{token}/is-present", token |-> self.token],
   method |-> "GET"]

\* variant: rename() built on delete()'s request line
RenameRequestAsDelete(self, newName) ==
  [path |-> [route |-> "/catalog/{token}", token |-> self.token],
   method |-> "DELETE"]

RenameRequest(self, newName) ==
  [path    |-> [route |-> "/catalog/{token}/rename", token |-> self.token],
   method  |-> "POST",
   headers |-> [ContentType |-> "application/json"],
   body    |-> [new_name |-> newName]]

DeleteRequest(self) ==
  [path |-> [route |-> "/catalog/{token}", token |-> self.token],
   method |-> "DELETE"]

\* ----------------------------------------------------- after the transport
\* What each method does once #request has resolved with res: it either
\* finishes (Return / Throw) or awaits the body (Await), and then finishes
\* with what the body read gave.
Await(what) == [kind |-> "await", what |-> what]

\* #parseError: res.json(), undefined when that rejects
ParseError(content) == IF content = NoJson THEN Undefined ELSE content

UploadOnResponse(self, res) ==
  IF ~Ok(res) THEN Await("parseError") ELSE Await("json")

\* variant: upload() does not look for the body's error field
UploadOnBodyNoErrorText(self, res, parsed) ==
  IF ~Ok(res)
  THEN Throw(GagaraError([text |-> "Upload failed: ", status |-> res.status],
                         res.status, parsed))
  ELSE Return([dataset |->
         DatasetCtor(parsed.token, self.baseUrl, self.fetch, self.timeout)])

\* variant: the new handle is not given the client's timeout
UploadOnBodyDefaultTimeout(self, res, parsed) ==
  IF ~Ok(res)
  THEN Throw(GagaraError(
         ErrorOr(parsed, [text |-> "Upload failed: ", status |-> res.status]),
         res.status, parsed))
  ELSE Return([dataset |->
         DatasetCtor(parsed.token, self.baseUrl, self.fetch, DefaultTimeout)])

UploadOnBody(self, res, parsed) ==
  IF ~Ok(res)
  THEN Throw(GagaraError(
         ErrorOr(parsed, [text |-> "Upload failed: ", status |-> res.status]),
         res.status, parsed))
  ELSE Return([dataset |->
         DatasetCtor(parsed.token, self.baseUrl, self.fetch, self.timeout)])

\* variant: the Dataset constructor's arguments in the wrong order
FromTokenResultSwapped(self, token) ==
  DatasetCtor(self.timeout, self.baseUrl, self.fetch, token)

FromTokenResult(self, token) ==
  DatasetCtor(token, self.baseUrl, self.fetch, self.timeout)

HealthOnResponse(self, res) == Return(Bool(Ok(res)))

\* variant: health() without its catch
HealthOnRejectRethrow(self, err) == Throw(err)

HealthOnReject(self, err) == Return(Bool(FALSE))

QueryOnResponse(self, res) ==
  IF ~Ok(res) THEN Await("parseError") ELSE Await("json")

\* variant: query() takes the first row for a header and drops it
QueryOnBodySkipsFirstRow(self, res, parsed) ==
  IF ~Ok(res)
  THEN IF res.status = 404
       THEN Throw(DatasetNotFoundError(self.token))
       ELSE Throw(QueryError(ErrorOr(parsed, Msg("Query failed")), parsed))
  ELSE Return([rows |-> SubSeq(parsed.rows, 2, Len(parsed.rows))])

QueryOnBody(self, res, parsed) ==
  IF ~Ok(res)
  THEN IF res.status = 404
       THEN Throw(DatasetNotFoundError(self.token))
       ELSE Throw(QueryError(ErrorOr(parsed, Msg("Query failed")), parsed))
  ELSE Return([rows |-> parsed.rows])

QueryFullOnResponse(self, res) ==
  IF ~Ok(res) THEN Await("parseError") ELSE Await("json")

\* variant: queryFull() does not look for the payload's error field
QueryFullOnBodyDefaultMessage(self, res, parsed) ==
  IF ~Ok(res)
  THEN IF res.status = 404
       THEN Throw(DatasetNotFoundError(self.token))
       ELSE Throw(QueryError(Msg("Query failed"), parsed))
  ELSE Return([data |-> parsed])

QueryFullOnBody(self, res, parsed) ==
  IF ~Ok(res)
  THEN IF res.status = 404
       THEN Throw(DatasetNotFoundError(self.token))
       ELSE Throw(QueryError(ErrorOr(parsed, Msg("Query failed")), parsed))
  ELSE Return([data |-> parsed])

SchemaOnResponse(self, res) ==
  IF ~Ok(res)
  THEN IF res.status = 404
       THEN Throw(DatasetNotFoundError(self.token))
       ELSE Throw(GagaraError(Msg("Failed to get schema"), res.status, Undefined))
  ELSE Await("json")

SchemaOnBody(self, res, parsed) == Return([columns |-> parsed.columns])

\* variant: meta() without the 404 case
MetaOnResponseNo404(self, res) ==
  IF ~Ok(res)
  THEN Throw(GagaraError(Msg("Failed to get metadata"), res.status, Undefined))
  ELSE Await("json")

MetaOnResponse(self, res) ==
  IF ~Ok(res)
  THEN IF res.status = 404
       THEN Throw(DatasetNotFoundError(self.token))
       ELSE Throw(GagaraError(Msg("Failed to get metadata"), res.status, Undefined))
  ELSE Await("json")

MetaOnBody(self, res, parsed) == Return([data |-> parsed])

\* variant: isPresent() with the 404 case of the other methods
IsPresentOnResponseWith404(self, res) ==
  IF ~Ok(res)
  THEN IF res.status = 404
       THEN Throw(DatasetNotFoundError(self.token))
       ELSE Throw(GagaraError(Msg("Failed to check presence"), res.status, Undefined))
  ELSE Await("json")

IsPresentOnResponse(self, res) ==
  IF ~Ok(res)
  THEN Throw(GagaraError(Msg("Failed to check presence"), res.status, Undefined))
  ELSE Await("json")

\* variant: isPresent() answers from the status, not from the body
IsPresentOnBodyFromStatus(self, res, parsed) == Return(Bool(Ok(res)))

IsPresentOnBody(self, res, parsed) == Return(Bool(parsed.isPresent))

RenameOnResponse(self, res) ==
  IF ~Ok(res)
  THEN IF res.status = 404
       THEN Throw(DatasetNotFoundError(self.token))
       ELSE Throw(GagaraError(Msg("Failed to rename"), res.status, Undefined))
  ELSE Return(Void)

\* variant: delete() without the 404 case
DeleteOnResponseNo404(self, res) ==
  IF ~Ok(res)
  THEN Throw(GagaraError(Msg("Failed to delete"), res.status, Undefined))
  ELSE Return(Void)

DeleteOnResponse(self, res) ==
  IF ~Ok(res)
  THEN IF res.status = 404
       THEN Throw(DatasetNotFoundError(self.token))
       ELSE Throw(GagaraError(Msg("Failed to delete"), res.status, Undefined))
  ELSE Return(Void)

\* the continuation of the method that made the call
OnResponse(op, self, res) ==
  CASE op = "upload"    -> UploadOnResponse(self, res)
    [] op = "health"    -> HealthOnResponse(self, res)
    [] op = "query"     -> QueryOnResponse(self, res)
    [] op = "queryFull" -> QueryFullOnResponse(self, res)
    [] op = "schema"    -> SchemaOnResponse(self, res)
    [] op = "meta"      -> MetaOnResponse(self, res)
    [] op = "isPresent" -> IsPresentOnResponse(self, res)
    [] op = "rename"    -> RenameOnResponse(self, res)
    [] op = "delete"    -> DeleteOnResponse(self, res)

OnBody(op, self, res, parsed) ==
  CASE op = "upload"    -> UploadOnBody(self, res, parsed)
    [] op = "query"     -> QueryOnBody(self, res, parsed)
    [] op = "queryFull" -> QueryFullOnBody(self, res, parsed)
    [] op = "schema"    -> SchemaOnBody(self, res, parsed)
    [] op = "meta"      -> MetaOnBody(self, res, parsed)
    [] op = "isPresent" -> IsPresentOnBody(self, res, parsed)

\* a rejection of #request: only health() catches it
OnReject(op, self, err) ==
  IF op = "health" THEN HealthOnReject(self, err) ELSE Throw(err)

\* ------------------------------------------------------------------- state
VARIABLES
  client,   \* the GagaraClient: #baseUrl, #fetch, #timeout
  held,     \* the Dataset handle the caller holds, and how it got it
  calls,    \* the calls in progress or finished and not yet taken: a bag
  server,   \* the server: its catalog (token -> name) and the tokens issued
  sent,     \* the number of requests handed to the transport so far
  log       \* what the caller has seen: tokens whose delete() / rename()
            \* returned, and tokens delete() was called on

vars == <<client, held, calls, server, sent, log>>

Active(c) == c.pc \in {"sent", "served", "body"}

Calls == BagToSet(calls)

\* the bag with call c replaced by c1
Replace(c, c1) == (calls (-) SetToBag({c})) (+) SetToBag({c1})

\* #request: a fresh controller, the timer armed with #timeout, and the
\* request handed to #fetch with the controller's signal
Request(self, init) ==
  [timer   |-> "armed",
   delay   |-> self.timeout,
   sentBy  |-> self.fetch,
   url     |-> [base |-> self.baseUrl, path |-> init.path],
   req     |-> init,
   aborted |-> FALSE]

\* variant: a Dataset remembers that its delete() returned and fails later
\* calls itself, without a request
NewCallInvalidated(op, self, init) ==
  LET call ==
        Request(self, init) @@
        [op |-> op, self |-> self, pc |-> "sent", overdue |-> FALSE,
         res |-> Undefined, awaiting |-> "none", out |-> Undefined,
         afterDelete |-> "token" \in DOMAIN self /\ self.token \in log.deleted,
         afterRename |-> "token" \in DOMAIN self /\ self.token \in log.renamed]
  IN IF call.afterDelete
     THEN [call EXCEPT !.pc = "done", !.timer = "cleared",
                       !.out = Throw(DatasetNotFoundError(self.token))]
     ELSE call

NewCall(op, self, init) ==
  Request(self, init) @@
  [op |-> op, self |-> self, pc |-> "sent", overdue |-> FALSE,
   res |-> Undefined, awaiting |-> "none", out |-> Undefined,
   afterDelete |-> "token" \in DOMAIN self /\ self.token \in log.deleted,
   afterRename |-> "token" \in DOMAIN self /\ self.token \in log.renamed]

StartCall(op, self, init) ==
  /\ sent < MaxSent
  /\ sent' = sent + 1
  /\ BagCardinality(calls) < Cardinality(Concurrent)
  /\ calls' = calls (+) SetToBag({NewCall(op, self, init)})

\* variant: a delete() that returns clears the token of its Dataset
SettleClearsToken(c, c1, out) ==
  /\ calls' = Replace(c, [c1 EXCEPT !.pc = "done", !.out = out, !.overdue = FALSE])
  /\ log' = IF out.kind = "return" /\ c.op = "delete"
              THEN [log EXCEPT !.deleted = @ \cup {c.self.token}]
            ELSE IF out.kind = "return" /\ c.op = "rename"
              THEN [log EXCEPT !.renamed = @ \cup {c.self.token}]
            ELSE log
  /\ held' = IF out.kind = "return" /\ c.op = "delete"
                /\ held.via # "none" /\ held.handle = c.self
             THEN [held EXCEPT !.handle.token = 0]
             ELSE held

\* call c, by now c1, ends with outcome out; the caller sees it.  No method
\* assigns to a field of its Dataset: the handle the caller holds stays as it is
Settle(c, c1, out) ==
  /\ calls' = Replace(c, [c1 EXCEPT !.pc = "done", !.out = out, !.overdue = FALSE])
  /\ log' = IF out.kind = "return" /\ c.op = "delete"
              THEN [log EXCEPT !.deleted = @ \cup {c.self.token}]
            ELSE IF out.kind = "return" /\ c.op = "rename"
              THEN [log EXCEPT !.renamed = @ \cup {c.self.token}]
            ELSE log
  /\ held' = held

Put(catalog, t, name) ==
  [x \in DOMAIN catalog \cup {t} |-> IF x = t THEN name ELSE catalog[x]]

Remove(catalog, t) == [x \in DOMAIN catalog \ {t} |-> catalog[x]]

\* the server as the client finds it: holding one dataset, uploaded in an
\* earlier session (its token is what fromToken is for)
ServerStart == [catalog |-> Put(<< >>, 1, "a"), issued |-> 1]

Init ==
  /\ client \in {GagaraClientCtor(o) : o \in ClientOptionsSet}
  /\ held = [via |-> "none"]
  /\ calls = EmptyBag
  /\ server = ServerStart
  /\ sent = 0
  /\ log = [deleted |-> {}, renamed |-> {}, deleteCalled |-> {}]

\* ------------------------------------------------------------ GagaraClient
Upload(data, name, options) ==
  /\ StartCall("upload", client, UploadRequest(data, name, options))
  /\ UNCHANGED <<client, held, server, log>>

\* The caller passes a token that an upload, of this session or an earlier
\* one, has given out; the dataset may be gone by now.
FromToken(token) ==
  /\ token <= server.issued
  /\ held' = [via |-> "fromToken", arg |-> token,
              handle |-> FromTokenResult(client, token)]
  /\ UNCHANGED <<client, calls, server, sent, log>>

Health ==
  /\ StartCall("health", client, HealthRequest)
  /\ UNCHANGED <<client, held, server, log>>

\* ----------------------------------------------------------------- Dataset
Holding == held.via # "none"

Query(sql) ==
  /\ Holding
  /\ StartCall("query", held.handle, QueryRequest(held.handle, sql))
  /\ UNCHANGED <<client, held, server, log>>

QueryFull(sql) ==
  /\ Holding
  /\ StartCall("queryFull", held.handle, QueryFullRequest(held.handle, sql))
  /\ UNCHANGED <<client, held, server, log>>

Schema ==
  /\ Holding
  /\ StartCall("schema", held.handle, SchemaRequest(held.handle))
  /\ UNCHANGED <<client, held, server, log>>

Meta ==
  /\ Holding
  /\ StartCall("meta", held.handle, MetaRequest(held.handle))
  /\ UNCHANGED <<client, held, server, log>>

IsPresent ==
  /\ Holding
  /\ StartCall("isPresent", held.handle, IsPresentRequest(held.handle))
  /\ UNCHANGED <<client, held, server, log>>

Rename(newName) ==
  /\ Holding
  /\ StartCall("rename", held.handle, RenameRequest(held.handle, newName))
  /\ UNCHANGED <<client, held, server, log>>

Delete ==
  /\ Holding
  /\ StartCall("delete", held.handle, DeleteRequest(held.handle))
  /\ log' = [log EXCEPT !.deleteCalled = @ \cup {held.handle.token}]
  /\ UNCHANGED <<client, held, server>>

\* --------------------------------------------------- the server (environment)
Response(status, body) == [status |-> status, body |-> body]

Present(srv, t) == t \in DOMAIN srv.catalog

\* the token a request addresses: the bearer token of /query, else the path's
TokenOf(req) ==
  IF req.path.route = "/query" THEN req.headers.Authorization.bearer
  ELSE req.path.token

Reply(res, srv) == [res |-> res, srv |-> srv]

NotFoundReply(srv) == Reply(Response(404, [error |-> "unknown token"]), srv)

\* the replies of a working server to a request, with the state each leaves
ServerAnswers(srv, req) ==
  LET route == req.path.route
      m     == req.method
  IN
  IF route = "/health" /\ m = "GET" THEN
    { Reply(Response(200, [state |-> "ok"]), srv) }
  ELSE IF route = "/catalog" /\ m = "POST" THEN
      LET t == srv.issued + 1 IN
      { Reply(Response(200, [token |-> t]),
              [catalog |-> Put(srv.catalog, t, req.headers.XGagaraName),
               issued  |-> t]) }
  ELSE IF route = "/query" /\ m = "POST" THEN
    IF ~Present(srv, TokenOf(req)) THEN { NotFoundReply(srv) }
    ELSE IF req.body.sql = "SELEKT" THEN
      { Reply(Response(400, [error |-> "syntax error"]), srv) }
    ELSE { Reply(Response(200, b), srv) : b \in QueryBodies }
  ELSE IF route = "/catalog/{token}/schema" /\ m = "GET" THEN
    IF ~Present(srv, TokenOf(req)) THEN { NotFoundReply(srv) }
    ELSE { Reply(Response(200, SchemaBody), srv) }
  ELSE IF route = "/catalog/{token}/meta" /\ m = "GET" THEN
    IF ~Present(srv, TokenOf(req)) THEN { NotFoundReply(srv) }
    ELSE { Reply(Response(200, MetaBody), srv) }
  ELSE IF route = "/catalog/{token}/is-present" /\ m = "GET" THEN
    IF Present(srv, TokenOf(req))
    THEN { Reply(Response(200, [isPresent |-> TRUE]), srv) }
    ELSE { Reply(Response(200, [isPresent |-> FALSE]), srv), NotFoundReply(srv) }
  ELSE IF route = "/catalog/{token}/rename" /\ m = "POST" THEN
    IF ~Present(srv, TokenOf(req)) THEN { NotFoundReply(srv) }
    ELSE { Reply(Response(204, NoJson),
                 [srv EXCEPT !.catalog = Put(@, TokenOf(req), req.body.new_name)]) }
  ELSE IF route = "/catalog/{token}" /\ m = "DELETE" THEN
    IF ~Present(srv, TokenOf(req)) THEN { NotFoundReply(srv) }
    ELSE { Reply(Response(204, NoJson),
                 [srv EXCEPT !.catalog = Remove(@, TokenOf(req))]) }
  ELSE { Reply(Response(404, NoJson), srv) }

\* what reading the body of res can give
BodyContents(res) == IF res.body = Streamed THEN ErrorBodies ELSE {res.body}

\* the server answers the request of call c
ServerAnswer(c) ==
  /\ c.pc = "sent"
  /\ \E a \in ServerAnswers(server, c.req) :
       /\ calls' = Replace(c, [c EXCEPT !.pc = "served", !.res = a.res, !.req = Consumed])
       /\ server' = a.srv
  /\ UNCHANGED <<client, held, sent, log>>

\* the server fails the request of call c, leaving the catalog alone
ServerFault(c) ==
  /\ c.pc = "sent"
  /\ \E s \in FaultStatuses :
       calls' = Replace(c, [c EXCEPT !.pc = "served", !.res = Response(s, Streamed),
                                     !.req = Consumed])
  /\ UNCHANGED <<client, held, server, sent, log>>

\* -------------------------------------------------- the transport and timer
\* variant: #request without the finally clause on the path where #fetch resolves
FetchResolveKeepsTimer(c) ==
  LET step == OnResponse(c.op, c.self, c.res) IN
  /\ c.pc = "served"
  /\ IF step.kind = "await"
     THEN /\ calls' = Replace(c, [c EXCEPT !.pc = "body", !.awaiting = step.what])
          /\ UNCHANGED <<log, held>>
     ELSE Settle(c, c, step)
  /\ UNCHANGED <<client, server, sent>>

\* #fetch resolves with the response: the finally clause clears the timer and
\* the method goes on with the response
FetchResolve(c) ==
  LET c1   == [c EXCEPT !.timer = "cleared"]
      step == OnResponse(c.op, c.self, c.res)
  IN
  /\ c.pc = "served"
  /\ IF step.kind = "await"
     THEN /\ calls' = Replace(c, [c1 EXCEPT !.pc = "body", !.awaiting = step.what])
          /\ UNCHANGED <<log, held>>
     ELSE Settle(c, c1, step)
  /\ UNCHANGED <<client, server, sent>>

\* variant: #parseError without its catch
BodyReadNoCatch(c) ==
  /\ c.pc = "body"
  /\ \E content \in BodyContents(c.res) :
       LET c1 == [c EXCEPT !.res.body = content] IN
       IF content = NoJson
       THEN Settle(c, c1, Throw(JsonFailure))
       ELSE Settle(c, c1, OnBody(c.op, c.self, c.res, content))
  /\ UNCHANGED <<client, server, sent>>

\* res.json() settles: the method goes on with the parsed body, or, outside
\* #parseError, with the rejection
BodyRead(c) ==
  /\ c.pc = "body"
  /\ \E content \in BodyContents(c.res) :
       LET c1 == [c EXCEPT !.res.body = content] IN
       IF c.awaiting = "json" /\ content = NoJson
       THEN Settle(c, c1, Throw(JsonFailure))
       ELSE Settle(c, c1, OnBody(c.op, c.self, c.res,
                     IF c.awaiting = "parseError" THEN ParseError(content) ELSE content))
  /\ UNCHANGED <<client, server, sent>>

\* variant: #request hands the request to #fetch again after a network failure
NetworkErrorRetry(c) ==
  /\ c.pc = "sent"
  /\ sent < MaxSent
  /\ sent' = sent + 1
  /\ UNCHANGED <<client, held, calls, server, log>>

\* #fetch rejects with a network failure: the finally clause clears the timer
NetworkError(c) ==
  /\ c.pc \in {"sent", "served"}
  /\ Settle(c, [c EXCEPT !.timer = "cleared", !.req = Consumed, !.res = Undefined],
            OnReject(c.op, c.self, NetworkFailure))
  /\ UNCHANGED <<client, server, sent>>

\* variant: one AbortController shared by the calls: a timer that fires aborts
\* every request in flight
AbortedBy(x) ==
  IF x.timer = "armed"
  THEN [x EXCEPT !.timer = "fired", !.aborted = TRUE, !.req = Consumed,
                 !.res = Undefined, !.pc = "done", !.overdue = FALSE,
                 !.out = OnReject(x.op, x.self, AbortFailure)]
  ELSE x

TimeoutElapsesShared(c) ==
  /\ Active(c)
  /\ ~c.overdue
  /\ IF c.timer = "armed"
     THEN calls' = BagOfAll(AbortedBy, calls)
     ELSE calls' = Replace(c, [c EXCEPT !.overdue = TRUE])
  /\ UNCHANGED <<client, held, server, sent, log>>

\* the configured duration has passed since call c began.  An armed timer
\* fires: controller.abort() makes #fetch reject, which ends the call.  With
\* the timer cleared nothing happens: the call is in progress and overdue.
TimeoutElapses(c) ==
  /\ Active(c)
  /\ ~c.overdue
  /\ IF c.timer = "armed"
     THEN Settle(c, [c EXCEPT !.timer = "fired", !.aborted = TRUE,
                              !.req = Consumed, !.res = Undefined],
                 OnReject(c.op, c.self, AbortFailure))
     ELSE /\ calls' = Replace(c, [c EXCEPT !.overdue = TRUE])
          /\ UNCHANGED <<log, held>>
  /\ UNCHANGED <<client, server, sent>>

\* the caller takes the outcome of call c; an uploaded Dataset becomes the
\* handle it holds
Collect(c) ==
  /\ c.pc = "done"
  /\ calls' = calls (-) SetToBag({c})
  /\ held' = IF c.op = "upload" /\ c.out.kind = "return"
             THEN [via |-> "upload", handle |-> c.out.value.dataset]
             ELSE held
  /\ UNCHANGED <<client, server, sent, log>>

\* ------------------------------------------------------------ specifications
Next ==
  \/ \E d \in Datas, n \in Names, o \in UploadOptionsSet : Upload(d, n, o)
  \/ \E t \in Tokens : FromToken(t)
  \/ Health
  \/ \E q \in Sqls : Query(q)
  \/ \E q \in Sqls : QueryFull(q)
  \/ Schema
  \/ Meta
  \/ IsPresent
  \/ \E n \in Names : Rename(n)
  \/ Delete
  \/ \E c \in Calls : ServerAnswer(c)
  \/ \E c \in Calls : ServerFault(c)
  \/ \E c \in Calls : FetchResolve(c)
  \/ \E c \in Calls : BodyRead(c)
  \/ \E c \in Calls : NetworkError(c)
  \/ \E c \in Calls : TimeoutElapses(c)
  \/ \E c \in Calls : Collect(c)

Spec == Init /\ [][Next]_vars

\* the same program against a server and a transport that do not fail and
\* answer before the timeout
NextReliable ==
  \/ \E d \in Datas, n \in Names, o \in UploadOptionsSet : Upload(d, n, o)
  \/ \E t \in Tokens : FromToken(t)
  \/ Health
  \/ \E q \in Sqls : Query(q)
  \/ \E q \in Sqls : QueryFull(q)
  \/ Schema
  \/ Meta
  \/ IsPresent
  \/ \E n \in Names : Rename(n)
  \/ Delete
  \/ \E c \in Calls : ServerAnswer(c)
  \/ \E c \in Calls : FetchResolve(c)
  \/ \E c \in Calls : BodyRead(c)
  \/ \E c \in Calls : Collect(c)

SpecReliable == Init /\ [][NextReliable]_vars

\* =================================================================== claims
Done(c) == c.pc = "done"

\* the transport resolved call c with a response (it did not reject)
Responded(c) == "status" \in DOMAIN c.res

Threw(c, name) == c.out.kind = "throw" /\ c.out.error.name = name

NotFoundFor(token) ==
  Throw([name |-> "DatasetNotFoundError",
         message |-> [text |-> "Dataset not found: ", token |-> token],
         status |-> 404, body |-> Undefined])

TokenScoped == {"query", "queryFull", "schema", "meta", "rename", "delete"}

\* C1: for query, queryFull, schema, meta, rename and delete, a 404 response
\* raises the dataset-not-found error naming the handle's token, and any
\* other non-2xx response raises a query error (query, queryFull) or a
\* generic error (the others), never dataset-not-found.
C1_NotFoundOnlyOn404 ==
  \A c \in Calls :
    (Done(c) /\ c.op \in TokenScoped /\ Responded(c) /\ ~Ok(c.res)) =>
      IF c.res.status = 404
      THEN c.out = NotFoundFor(c.self.token)
      ELSE Threw(c, IF c.op \in {"query", "queryFull"}
                    THEN "QueryError" ELSE "GagaraError")

\* a delete answered 404 and a query answered 500 have both ended
C1_Witness ==
  \E c, d \in Calls :
    /\ Done(c) /\ c.op = "delete" /\ Responded(c) /\ c.res.status = 404
    /\ Threw(c, "DatasetNotFoundError")
    /\ Done(d) /\ d.op = "query" /\ Responded(d) /\ d.res.status = 500
    /\ Threw(d, "QueryError")

\* C2: health() returns true exactly when the transport resolved with a 2xx
\* response; on a network failure, an abort by the timer and a non-2xx
\* response it returns false; it never throws.
C2_HealthIsBoolean ==
  \A c \in Calls :
    (Done(c) /\ c.op = "health") =>
      c.out = Return(Bool(IF Responded(c) THEN Ok(c.res) ELSE FALSE))

\* a health() aborted by its timer has returned false
C2_Witness ==
  \E c \in Calls :
    Done(c) /\ c.op = "health" /\ c.aborted /\ c.out = Return(Bool(FALSE))

\* C3: an upload answered 2xx returns a Dataset whose token is the token
\* field of the response body, unchanged, with the client's base address,
\* transport and timeout.
C3_UploadTokenVerbatim ==
  \A c \in Calls :
    (Done(c) /\ c.op = "upload" /\ Responded(c) /\ Ok(c.res)
       /\ "token" \in DOMAIN c.res.body) =>
      c.out = Return([dataset |->
                [token |-> c.res.body.token, baseUrl |-> client.baseUrl,
                 fetch |-> client.fetch, timeout |-> client.timeout]])

\* an upload has returned the Dataset of the token the server issued
C3_Witness ==
  \E c \in Calls :
    /\ Done(c) /\ c.op = "upload" /\ c.out.kind = "return"
    /\ c.out.value.dataset.token = server.issued
    /\ c.out.value.dataset.token \in DOMAIN server.catalog

\* C4: a step in which fromToken(t) hands the caller a handle sends no
\* request (the count of requests sent and the calls in progress are as
\* before), leaves the server alone, and the handle's token is t.
C4_FromTokenIsLocal ==
  [][ (held' # held /\ held'.via = "fromToken") =>
        /\ sent' = sent
        /\ calls' = calls
        /\ server' = server
        /\ held'.handle = [token |-> held'.arg, baseUrl |-> client.baseUrl,
                           fetch |-> client.fetch, timeout |-> client.timeout] ]_vars

\* the caller holds a handle from fromToken and no request was ever sent
C4_Witness ==
  held.via = "fromToken" /\ held.handle.token = held.arg /\ sent = 0

\* C5: on a 2xx response with body {columns, rows}, query returns the rows
\* of the body and queryFull the body itself; so for the same response
\* query's result is the rows field of queryFull's result.
C5_QueryReturnsRows ==
  /\ \A c \in Calls :
       (Done(c) /\ Responded(c) /\ Ok(c.res) /\ "rows" \in DOMAIN c.res.body) =>
         /\ c.op = "query" => c.out = Return([rows |-> c.res.body.rows])
         /\ c.op = "queryFull" =>
              /\ c.out = Return([data |-> c.res.body])
              /\ c.out.value.data.columns = c.res.body.columns
              /\ c.out.value.data.rows = c.res.body.rows
  /\ \A c, d \in Calls :
       (Done(c) /\ Done(d) /\ c.op = "query" /\ d.op = "queryFull"
          /\ Responded(c) /\ c.res = d.res /\ Ok(c.res)
          /\ "rows" \in DOMAIN c.res.body) =>
         c.out.value.rows = d.out.value.data.rows

\* a query and a queryFull have returned for the same two-row response
C5_Witness ==
  \E c, d \in Calls :
    /\ Done(c) /\ c.op = "query" /\ Done(d) /\ d.op = "queryFull"
    /\ Responded(c) /\ c.res = d.res /\ Ok(c.res)
    /\ Len(c.res.body.rows) = 2
    /\ c.out.kind = "return" /\ d.out.kind = "return"

\* C6: a query, schema, meta, rename or delete begun after a delete() on its
\* token has returned raises the dataset-not-found error (against a server
\* and a transport that do not fail).
C6_AfterDeleteNotFound ==
  \A c \in Calls :
    (Done(c) /\ c.afterDelete
       /\ c.op \in {"query", "schema", "meta", "rename", "delete"}) =>
      c.out = NotFoundFor(c.self.token)

\* a second delete on a deleted token has raised dataset-not-found
C6_Witness ==
  \E c \in Calls :
    /\ Done(c) /\ c.afterDelete /\ c.op = "delete"
    /\ Threw(c, "DatasetNotFoundError")
    /\ c.self.token \in log.deleted

\* C7 as stated: every operation begun after a delete() on its token has
\* returned, isPresent included, fails with dataset-not-found.
C7_AnyOperationNotFound ==
  \A c \in Calls :
    (Done(c) /\ c.afterDelete) => Threw(c, "DatasetNotFoundError")

\* C7 as amended: after a delete() on its token has returned, query,
\* queryFull, schema, meta, rename and delete raise dataset-not-found;
\* isPresent does not: it returns false on a 200 answer and raises the
\* generic error "Failed to check presence" with status 404 on a 404 answer.
C7_AfterDeleteGone ==
  \A c \in Calls :
    (Done(c) /\ c.afterDelete) =>
      IF c.op = "isPresent"
      THEN \/ c.res.status = 200 /\ c.out = Return(Bool(FALSE))
           \/ /\ c.res.status = 404
              /\ c.out = Throw([name |-> "GagaraError",
                                message |-> [text |-> "Failed to check presence"],
                                status |-> 404, body |-> Undefined])
      ELSE c.out = NotFoundFor(c.self.token)

\* isPresent on a deleted token has returned false
C7_Witness ==
  \E c \in Calls :
    /\ Done(c) /\ c.afterDelete /\ c.op = "isPresent"
    /\ c.out = Return(Bool(FALSE))

\* C8: isPresent() never raises dataset-not-found: a non-2xx response, 404
\* included, raises the generic error "Failed to check presence" with the
\* response's status, and a 2xx response returns the isPresent field of the
\* body.
C8_IsPresentNeverNotFound ==
  \A c \in Calls :
    (Done(c) /\ c.op = "isPresent") =>
      /\ ~Threw(c, "DatasetNotFoundError")
      /\ (Responded(c) /\ ~Ok(c.res)) =>
           c.out = Throw([name |-> "GagaraError",
                          message |-> [text |-> "Failed to check presence"],
                          status |-> c.res.status, body |-> Undefined])
      /\ (Responded(c) /\ Ok(c.res) /\ "isPresent" \in DOMAIN c.res.body) =>
           c.out = Return(Bool(c.res.body.isPresent))

\* isPresent on a deleted token, answered 404, has raised the generic error
C8_Witness ==
  \E c \in Calls :
    /\ Done(c) /\ c.op = "isPresent" /\ c.afterDelete
    /\ Responded(c) /\ c.res.status = 404
    /\ Threw(c, "GagaraError") /\ c.out.error.status = 404

\* C9: an isPresent() begun after a rename() on its token has returned, with
\* no delete() ever called on that token, returns true (against a server and
\* a transport that do not fail).
C9_RenameKeepsDataset ==
  \A c \in Calls :
    (Done(c) /\ c.op = "isPresent" /\ c.afterRename
       /\ c.self.token \notin log.deleteCalled) =>
      c.out = Return(Bool(TRUE))

\* isPresent after a rename has returned true, the dataset under its new name
C9_Witness ==
  \E c \in Calls :
    /\ Done(c) /\ c.op = "isPresent" /\ c.afterRename
    /\ c.out = Return(Bool(TRUE))
    /\ c.self.token \in DOMAIN server.catalog
    /\ server.catalog[c.self.token] = "b"

\* C10 as stated: no call is still in progress once the configured duration
\* has passed (it has been aborted), and an abort reaches the caller of every
\* method but health() as an error.
C10_TimeoutBoundsEveryCall ==
  \A c \in Calls :
    /\ ~c.overdue
    /\ (Done(c) /\ c.aborted /\ c.op # "health") => Threw(c, "AbortError")

\* the number of calls in the set S of calls, each with its multiplicity
CountCalls(S) == BagCardinality([c \in S |-> calls[c]])

InFlight(c) == c.pc \in {"sent", "served"}

Taxonomy == {"GagaraError", "DatasetNotFoundError", "QueryError"}

\* C12 as stated: whatever a method other than health() throws, after a
\* network failure, a timer abort or a server error, is one of the three
\* taxonomy errors.
C12_ErrorsAreTaxonomy ==
  \A c \in Calls :
    (Done(c) /\ c.op # "health" /\ c.out.kind = "throw") =>
      c.out.error.name \in Taxonomy

\* the endpoint of each operation
Endpoint ==
  [upload    |-> [route |-> "/catalog", method |-> "POST"],
   health    |-> [route |-> "/health", method |-> "GET"],
   query     |-> [route |-> "/query", method |-> "POST"],
   queryFull |-> [route |-> "/query", method |-> "POST"],
   schema    |-> [route |-> "/catalog/{token}/schema", method |-> "GET"],
   meta      |-> [route |-> "/catalog/{token}/meta", method |-> "GET"],
   isPresent |-> [route |-> "/catalog/{token}/is-present", method |-> "GET"],
   rename    |-> [route |-> "/catalog/{token}/rename", method |-> "POST"],
   delete    |-> [route |-> "/catalog/{token}", method |-> "DELETE"]]

\* C13: a step hands a request to the transport exactly when a call begins,
\* and then it is one request, to the endpoint of the call's operation at the
\* caller's base address; no later step of a call, whatever its outcome,
\* sends another.
C13_OneRequestPerCall ==
  [][ /\ sent' \in {sent, sent + 1}
      /\ (sent' = sent + 1) <=> (BagCardinality(calls') = BagCardinality(calls) + 1)
      /\ (sent' = sent + 1) =>
           \E c \in BagToSet(calls') :
             /\ calls' = calls (+) SetToBag({c})
             /\ c.pc = "sent"
             /\ c.req.path.route = Endpoint[c.op].route
             /\ c.req.method = Endpoint[c.op].method
             /\ c.url = [base |-> c.self.baseUrl, path |-> c.req.path] ]_vars

\* two calls have ended, one on a 404 and one on a network failure, and two
\* requests were sent
C13_Witness ==
  /\ sent = 2
  /\ BagCardinality(calls) = 2
  /\ \E c, d \in Calls :
       /\ Done(c) /\ Responded(c) /\ c.res.status = 404
       /\ Done(d) /\ Threw(d, "TypeError")

\* C14: when a non-2xx response has a body that is empty or not JSON, upload,
\* query and queryFull raise the typed error of the status (generic for
\* upload; dataset-not-found on 404 and query error otherwise for query and
\* queryFull) with no structured body; the failure to parse is not what the
\* caller gets.
C14_ParseFailureTolerated ==
  \A c \in Calls :
    (Done(c) /\ c.op \in {"upload", "query", "queryFull"}
       /\ Responded(c) /\ ~Ok(c.res) /\ c.res.body = NoJson) =>
      /\ c.out.kind = "throw"
      /\ c.out.error.name # "SyntaxError"
      /\ c.out.error.name =
           IF c.op = "upload" THEN "GagaraError"
           ELSE IF c.res.status = 404 THEN "DatasetNotFoundError"
           ELSE "QueryError"
      /\ c.out.error.body = Undefined

\* an upload and a query answered 500 with an unparsable body have raised
\* their typed errors
C14_Witness ==
  \E c, d \in Calls :
    /\ Done(c) /\ c.op = "upload" /\ Responded(c) /\ c.res = Response(500, NoJson)
    /\ Threw(c, "GagaraError") /\ c.out.error.body = Undefined
    /\ Done(d) /\ d.op = "query" /\ Responded(d) /\ d.res = Response(500, NoJson)
    /\ Threw(d, "QueryError") /\ d.out.error.body = Undefined

\* C15: every non-2xx response to upload, 404 included, raises the generic
\* error (not dataset-not-found, not a query error, and no Dataset is
\* returned) with the response's status and the parsed body; its message is
\* the body's error field when there is one and "Upload failed: <status>"
\* otherwise.
C15_UploadFailure ==
  \A c \in Calls :
    (Done(c) /\ c.op = "upload" /\ Responded(c) /\ ~Ok(c.res)) =>
      c.out = Throw([name    |-> "GagaraError",
                     message |-> IF "error" \in DOMAIN c.res.body
                                 THEN [text |-> c.res.body.error]
                                 ELSE [text |-> "Upload failed: ",
                                       status |-> c.res.status],
                     status  |-> c.res.status,
                     body    |-> IF c.res.body = NoJson THEN Undefined
                                 ELSE c.res.body])

\* an upload answered 404 with an error text and one answered 500 with a body
\* that has no error field have raised generic errors
C15_Witness ==
  \E c, d \in Calls :
    /\ Done(c) /\ c.op = "upload" /\ Responded(c) /\ c.res.status = 404
    /\ "error" \in DOMAIN c.res.body
    /\ Threw(c, "GagaraError") /\ c.out.error.status = 404
    /\ c.out.error.message = [text |-> c.res.body.error]
    /\ Done(d) /\ d.op = "upload" /\ Responded(d) /\ d.res.status = 500
    /\ "other" \in DOMAIN d.res.body
    /\ d.out.error.message = [text |-> "Upload failed: ", status |-> 500]

\* C16: on a non-2xx response other than 404, query and queryFull raise a
\* query error whose body is the parsed payload (absent when unparsable) and
\* whose message is the payload's error field when it has one and "Query
\* failed" when it has none or is absent.
C16_QueryErrorPayload ==
  \A c \in Calls :
    (Done(c) /\ c.op \in {"query", "queryFull"} /\ Responded(c)
       /\ ~Ok(c.res) /\ c.res.status # 404) =>
      /\ Threw(c, "QueryError")
      /\ c.out.error.body = IF c.res.body = NoJson THEN Undefined ELSE c.res.body
      /\ c.out.error.message =
           IF "error" \in DOMAIN c.res.body
           THEN [text |-> c.res.body.error]
           ELSE [text |-> "Query failed"]

\* a queryFull has raised the server's error text, and a query whose error
\* payload was unparsable has raised "Query failed"
C16_Witness ==
  \E c, d \in Calls :
    /\ Done(c) /\ c.op = "queryFull" /\ Responded(c) /\ ~Ok(c.res)
    /\ "error" \in DOMAIN c.res.body
    /\ Threw(c, "QueryError")
    /\ c.out.error.message = [text |-> c.res.body.error]
    /\ c.out.error.body = c.res.body
    /\ Done(d) /\ d.op = "query" /\ Responded(d) /\ d.res.status # 404
    /\ d.res.body = NoJson
    /\ Threw(d, "QueryError")
    /\ d.out.error.message = [text |-> "Query failed"]

C18_HandleImmutable ==
  [][ /\ held' # held =>
           \/ held'.via = "fromToken" /\ calls' = calls
           \/ \E c \in Calls :
                /\ c.op = "upload" /\ Done(c) /\ c.out.kind = "return"
                /\ calls' = calls (-) SetToBag({c})
                /\ held' = [via |-> "upload", handle |-> c.out.value.dataset]
      /\ held'.via = "fromToken" =>
           held'.handle = [token |-> held'.arg, baseUrl |-> client.baseUrl,
                           fetch |-> client.fetch, timeout |-> client.timeout]
    ]_vars

\* a delete() on the Dataset the caller holds has returned, the server no
\* longer has the dataset, and the Dataset is as it was built
C18_Witness ==
  \E c \in Calls :
    /\ Done(c) /\ c.op = "delete" /\ c.out = Return(Void)
    /\ held.via = "fromToken" /\ held.handle = c.self
    /\ held.handle.token = held.arg
    /\ ~Present(server, held.handle.token)

\* what a call of op on self makes of the response res, body read included
Outcome(op, self, res) ==
  LET step == OnResponse(op, self, res) IN
  IF step.kind # "await" THEN step
  ELSE IF step.what = "json" /\ res.body = NoJson THEN Throw(JsonFailure)
  ELSE OnBody(op, self, res,
              IF step.what = "parseError" THEN ParseError(res.body) ELSE res.body)

C20_CallsIndependent ==
  [][ /\ BagCardinality(calls (-) calls') <= 1
      /\ BagCardinality(calls' (-) calls) <= 1
      /\ \A d \in BagToSet(calls') :
           /\ d.aborted <=> d.timer = "fired"
           /\ (Done(d) /\ Threw(d, "AbortError")) => d.aborted
           /\ (Done(d) /\ Responded(d)) =>
                /\ ~d.aborted
                /\ d.out = Outcome(d.op, d.self, d.res) ]_vars

\* of two queries on the same handle one was aborted by its timer and the
\* other has returned the rows of its response
C20_Witness ==
  \E c, d \in Calls :
    /\ c.op = "query" /\ d.op = "query" /\ c.self = d.self
    /\ Done(c) /\ c.aborted /\ Threw(c, "AbortError")
    /\ Done(d) /\ Responded(d) /\ d.out = Return([rows |-> d.res.body.rows])

====
